---- MODULE Spec2Model ----
(***************************************************************************)
(* parex: SearchBuilder::run() and the parallel engine run() with its      *)
(* per-entry callback, shared counters, mutex-guarded collections, the     *)
(* two-guard limit protocol and the finalization clamp.                    *)
(*                                                                         *)
(* Option<T> is modelled as a set: {} is None, {v} is Some(v).             *)
(***************************************************************************)
EXTENDS Integers, Sequences, FiniteSets, TLC

\* ---------------------------------------------------------------- bounds
MaxThreads == 2
MaxLimit == 2
MaxDuration == 2
\* the cores of the machine, which the walker uses when threads is 0
Cores == 1

\* ------------------------------------------------------------ filesystem
\* The directory tree the walker reads (the tree of the integration tests,
\* cut down, plus a symlink to the directory subdir and an unreadable
\* directory), the working directory ".", and "-" (stdin).  Any other path
\* does not exist.
\* the type of a path itself (lstat)
FsKind(p) ==
    CASE p = "."            -> "Dir"
      [] p = "./notes"      -> "File"
      [] p = "./pipe"       -> "Fifo"
      [] p = "tmp"          -> "Dir"
      [] p = "tmp/inv_jan"  -> "File"
      [] p = "tmp/subdir"   -> "Dir"
      [] p = "tmp/subdir/INV_mar" -> "File"
      [] p = "tmp/inv_link" -> "Symlink"
      [] p = "tmp/inv_link/INV_mar" -> "File"
      [] p = "tmp/locked"   -> "Dir"
      [] p = "-"            -> "Stdin"
      [] OTHER              -> "Missing"

\* what a path leads to when links are followed
FsTarget(p) == IF p = "tmp/inv_link" THEN "tmp/subdir" ELSE p

\* the entries of a directory
FsChildren(p) ==
    CASE p = "."          -> {"./notes", "./pipe"}
      [] p = "tmp"        -> {"tmp/subdir", "tmp/inv_jan",
                              "tmp/inv_link", "tmp/locked"}
      [] p = "tmp/subdir" -> {"tmp/subdir/INV_mar"}
      [] p = "tmp/inv_link" -> {"tmp/inv_link/INV_mar"}
      [] OTHER            -> {}

\* the directories that can be listed (the link lists its target's entries)
FsListed == {".", "tmp", "tmp/subdir", "tmp/inv_link"}

\* the orders in which a set can be listed
Orders(S) ==
    {o \in [1..Cardinality(S) -> S] : \A i, j \in DOMAIN o : o[i] = o[j] => i = j}

\* read_dir gives the entries of a directory in an order that is not
\* specified: a listing fixes one order for each directory
Listings ==
    {[p \in FsListed |-> CASE p = "."          -> a
                            [] p = "tmp"        -> b
                            [] p = "tmp/subdir" -> c
                            [] OTHER            -> d] :
        a \in Orders(FsChildren(".")),
        b \in Orders(FsChildren("tmp")),
        c \in Orders(FsChildren("tmp/subdir")),
        d \in Orders(FsChildren("tmp/inv_link"))}

\* read_dir(p) under a listing
read_dir(ls, p) == IF p \in FsListed THEN ls[p] ELSE <<>>

\* read_dir fails on this directory
FsUnreadable(p) == p = "tmp/locked"

\* file_name() of a path, as a sequence of characters
FileName(p) ==
    CASE p = "."            -> <<".">>
      [] p = "./notes"      -> <<"n", "o">>
      [] p = "./pipe"       -> <<"p", "i">>
      [] p = "tmp"          -> <<"t">>
      [] p = "tmp/inv_jan"  -> <<"i", "n", "v", "j">>
      [] p = "tmp/subdir"   -> <<"s", "u">>
      [] p = "tmp/subdir/INV_mar" -> <<"I", "N", "V", "m">>
      [] p = "tmp/inv_link" -> <<"i", "n", "v", "l">>
      [] p = "tmp/inv_link/INV_mar" -> <<"I", "N", "V", "m">>
      [] p = "tmp/locked"   -> <<"l", "o">>
      [] p = "-"            -> <<"-">>
      [] p = "inv_jan.txt"  -> <<"i", "n", "v", "j">>
      [] p = "Inv_feb.txt"  -> <<"I", "n", "v", "f">>
      [] p = "report.txt"   -> <<"r", "e">>
      [] OTHER              -> <<>>

\* --------------------------------------------------------------- strings
Lower(c) ==
    CASE c = "I" -> "i"
      [] c = "N" -> "n"
      [] c = "V" -> "v"
      [] OTHER   -> c

to_lowercase(s) == [i \in 1..Len(s) |-> Lower(s[i])]

contains(s, pat) ==
    \E i \in 1..(Len(s) - Len(pat) + 1) : SubSeq(s, i, i + Len(pat) - 1) = pat

\* ---------------------------------------------------------------- errors
\* ParexError values: [variant, path]
ParexError(variant, path) == [variant |-> variant, path |-> path]

\* the variants; the field path holds the payload, which is a path for some
\* variants and a detail for the others
ErrorVariants ==
    {"PermissionDenied", "NotFound", "InvalidSource", "SymlinkLoop",
     "InvalidPattern", "InvalidThreadCount", "ThreadPool", "Io",
     "Source", "Matcher"}

\* path(): Some(p) for the variants that carry a path, else None
ParexError_path(e) ==
    IF e.variant \in {"PermissionDenied", "NotFound", "InvalidSource",
                      "SymlinkLoop", "Io"}
    THEN {e.path} ELSE {}

\* (mutant: an error is taken as recoverable when it carries a path)
is_recoverable_by_path(e) == ParexError_path(e) # {}

is_recoverable(e) ==
    e.variant \in {"PermissionDenied", "NotFound", "SymlinkLoop", "Io"}

is_fatal(e) == ~is_recoverable(e)

\* ignore::Error shapes the walker hands to the callback:
\*   [shape |-> "WithPath", inner |-> "Io" | "Other", io |-> kind, path]
\*   [shape |-> "Loop", ...], [shape |-> "Io", ...], [shape |-> "WithDepth", ...]
IgnoreError(shape, inner, io, path) ==
    [shape |-> shape, inner |-> inner, io |-> io, path |-> path]

map_ignore_error(e) ==
    CASE e.shape = "WithPath" /\ e.inner = "Io" ->
             IF e.io = "PermissionDenied"
             THEN ParexError("PermissionDenied", e.path)
             ELSE ParexError("Io", e.path)
      [] e.shape = "WithPath" /\ e.inner # "Io" -> ParexError("Source", "")
      [] e.shape = "Loop" -> ParexError("SymlinkLoop", e.path)
      [] e.shape = "Io"   -> ParexError("Io", "")
      [] OTHER            -> ParexError("Source", "")

\* --------------------------------------------------------------- entries
Entry(path, name, kind, depth) ==
    [path |-> path, name |-> name, kind |-> kind, depth |-> depth]

OkItem(e) == [ok |-> TRUE, entry |-> e]
ErrItem(err) == [ok |-> FALSE, error |-> err]

\* --------------------------------------------------------------- sources
\* The Source implementations of the crate documentation and of the
\* integration tests, and what their walk() yields.  A source that reads a
\* directory yields its entries in the order read_dir lists them.
RECURSIVE FlatMapWalk(_, _, _, _)
RECURSIVE WalkDirFrom(_, _, _)

\* walkdir::WalkDir::new(p), mapped as TestDirSource maps it: an error for a
\* path that does not exist, else the entry and, for a directory, what is
\* below it (an error when it cannot be read).  Links are not followed,
\* but a root that is a link is: its entry stays a Symlink, what its target
\* holds is walked, and a root link that leads nowhere is an error.
WalkDirFrom(ls, p, d) ==
    LET k == FsKind(p)
        t == IF d = 0 /\ k = "Symlink" THEN FsKind(FsTarget(p)) ELSE k
        kind == IF k = "Dir" THEN "Dir"
                ELSE IF k = "Symlink" THEN "Symlink" ELSE "File"
        self == <<OkItem(Entry(p, FileName(p), kind, d))>>
    IN  IF k \in {"Missing", "Stdin"} \/ t = "Missing"
        THEN <<ErrItem(ParexError("Io", p))>>
        ELSE IF t # "Dir" THEN self
        ELSE IF FsUnreadable(FsTarget(p))
        THEN self \o <<ErrItem(ParexError("Io", p))>>
        ELSE self \o FlatMapWalk(ls, read_dir(ls, p), 1, d + 1)

FlatMapWalk(ls, cs, i, d) ==
    IF i > Len(cs) THEN <<>>
    ELSE WalkDirFrom(ls, cs[i], d) \o FlatMapWalk(ls, cs, i + 1, d)

\* the test source over a directory
TestDirSource(dir) == [type |-> "TestDir", dir |-> dir, names |-> <<>>]

\* a directory source that yields its root as the first entry
DirectorySource(dir) == [type |-> "Directory", dir |-> dir, names |-> <<>>]

\* the in-memory source of the crate documentation
NameSource(names) == [type |-> "Names", dir |-> "", names |-> names]

\* Source::walk(): TestDirSource filters the root entry out of the walk
walk(src, ls) ==
    CASE src.type = "Names" ->
             [i \in 1..Len(src.names) |->
                 OkItem(Entry(src.names[i], FileName(src.names[i]), "File", 0))]
      [] src.type = "TestDir" ->
             SelectSeq(WalkDirFrom(ls, src.dir, 0),
                       LAMBDA it : IF it.ok THEN it.entry.path # src.dir
                                   ELSE TRUE)
      [] OTHER -> WalkDirFrom(ls, src.dir, 0)

\* The sources a search is built with.  Each yields nothing or an entry
\* first: source_root() reads the path of the first item, and the code has
\* no reading of a first item that is an error (such an item is met only
\* later in a walk, as for the unreadable directory of TestDirSource("tmp")).
Sources ==
    { NameSource(<<"inv_jan.txt", "Inv_feb.txt", "report.txt">>),
      NameSource(<<"-">>),
      NameSource(<<"./notes">>),
      NameSource(<<>>),
      TestDirSource("tmp"),
      DirectorySource("tmp") }

\* -------------------------------------------------------------- matchers
AllMatcher == [type |-> "All", pattern |-> <<>>]

\* SearchBuilder::matching(pattern)
matching(pattern) == [type |-> "Substring", pattern |-> to_lowercase(pattern)]

is_match(m, entry) ==
    IF m.type = "All" THEN TRUE
    ELSE contains(to_lowercase(entry.name), m.pattern)

Patterns == { <<"I", "n", "v">>, <<"z">> }

\* ----------------------------------------------------------------- state
VARIABLES
    builder,     \* the SearchBuilder's fields
    phase,       \* "built", "walking" (inside walker.run), "returned"
    root,        \* the PathBuf handed to the walker
    pending,     \* work sent to the pool and not yet taken
    quit_now,    \* the pool's stop flag
    wpc,         \* each worker's position
    witem,       \* the work a worker's callback was called with
    wmc,         \* a callback's post-increment match count (mc)
    matches, files, dirs,   \* the AtomicUsize counters
    paths, errors,          \* the Mutex<Vec<_>> collections
    found,       \* history: the mc of the callback that pushed each path
    pathsLock, errorsLock,  \* the worker holding each mutex, 0 when free
    result,      \* what SearchBuilder::run() returned
    calls,       \* history: the work the callback has been called with
    run_no,      \* 1, or 2 when the same builder is run a second time
    prev,        \* history: what the first run returned and visited
    listing,     \* the order read_dir gave for each directory the one
                 \* worker's stack was filled from
    probe        \* an error value a caller inspects, and what it was told

vars == <<builder, phase, root, pending, quit_now, wpc, witem, wmc,
          matches, files, dirs, paths, found, errors, pathsLock, errorsLock, result,
          calls, run_no, prev, probe, listing>>

shared == <<matches, files, dirs, paths, found, errors, pathsLock, errorsLock>>

Workers == DOMAIN wpc

NoWork == [path |-> "", depth |-> 0, err |-> FALSE]
NoResult == [tag |-> "None"]
NoProbe == [tag |-> "None"]

Option(S) == {{}} \cup {{v} : v \in S}

\* the state after the builder has been configured
Init ==
    /\ builder \in [ source         : Option(Sources),
                     matcher        : Option({matching(p) : p \in Patterns}),
                     limit          : Option(0..MaxLimit),
                     threads        : 0..MaxThreads,
                     max_depth      : Option({1}),
                     collect_paths  : BOOLEAN,
                     collect_errors : BOOLEAN ]
    /\ phase = "built"
    /\ root = ""
    /\ pending = {}
    /\ quit_now = FALSE
    /\ wpc = <<>>
    /\ witem = <<>>
    /\ wmc = <<>>
    /\ matches = 0 /\ files = 0 /\ dirs = 0
    /\ paths = <<>> /\ errors = <<>>
    /\ found = <<>>
    /\ pathsLock = 0 /\ errorsLock = 0
    /\ result = NoResult
    /\ calls = {}
    /\ run_no = 1
    /\ prev = NoResult
    /\ listing = <<>>
    /\ probe = NoProbe

\* --------------------------------------------------------------- builder
\* (mutant: the source is walked to its end and the last item is taken)
source_root_last(src) ==
    IF Len(src) > 0 /\ src[Len(src)].ok THEN src[Len(src)].entry.path ELSE "."

\* source_root(): the path of the first item of walk(), "." when there is
\* none (src is what source.walk(&config) yields): .next(), .map(|e| e.path),
\* .unwrap_or_else(".").  The path is read of whatever the first item is;
\* the fallback is for a walk that yields nothing.
source_root(src) ==
    IF Len(src) = 0 THEN "." ELSE src[1].entry.path

\* the matcher run() passes on
EffectiveMatcher ==
    IF builder.matcher = {} THEN AllMatcher
    ELSE CHOOSE m \in builder.matcher : TRUE

\* WalkBuilder::threads(n): 0 lets the walker choose by the machine, the
\* available parallelism and at most 12
ThreadCount(n) == IF n = 0 THEN IF Cores < 12 THEN Cores ELSE 12 ELSE n

\* run() up to walker.run(): the walker over the root with n workers, the
\* shared state created fresh
StartWalk(r, n) ==
    /\ root' = r
    /\ pending' = {[path |-> r, depth |-> 0, err |-> FALSE]}
    /\ quit_now' = FALSE
    /\ wpc' = [w \in 1..n |-> "idle"]
    /\ witem' = [w \in 1..n |-> NoWork]
    /\ wmc' = [w \in 1..n |-> 0]
    /\ matches' = 0 /\ files' = 0 /\ dirs' = 0
    /\ paths' = <<>> /\ errors' = <<>>
    /\ found' = <<>>
    /\ pathsLock' = 0 /\ errorsLock' = 0
    /\ calls' = {}
    /\ phase' = "walking"

\* (mutant: a missing source is not rejected and the walk starts at ".")
RunNoSource_unchecked ==
    /\ phase = "built"
    /\ builder.source = {}
    /\ StartWalk(".", ThreadCount(builder.threads))
    /\ UNCHANGED <<builder, result, run_no, prev, probe, listing>>

\* SearchBuilder::run() without a source
RunNoSource ==
    /\ phase = "built"
    /\ builder.source = {}
    /\ result' = [tag |-> "Err",
                  error |-> ParexError("InvalidSource", "no source provided")]
    /\ phase' = "returned"
    /\ UNCHANGED <<builder, root, pending, quit_now, wpc, witem, wmc, shared,
                   calls, run_no, prev, probe, listing>>

\* SearchBuilder::run() with a source, up to the start of walker.run()
RunStart ==
    /\ phase = "built"
    /\ \E src \in builder.source, ls \in Listings :
         StartWalk(source_root(walk(src, ls)), ThreadCount(builder.threads))
    /\ UNCHANGED <<builder, result, run_no, prev, probe, listing>>

\* ---------------------------------------------------------------- walker
\* Work is [path, depth, err]: err marks the second call the walker makes
\* for a directory it could not read.
\* The file type of the walker's DirEntry: the root is stat-ed through a
\* link; below the root links are not followed (follow_links(false)).
file_type(p, depth) == IF depth = 0 THEN FsKind(FsTarget(p)) ELSE FsKind(p)

\* What the parallel walker passes to the callback for a piece of work:
\* Err for a path it cannot stat; for a directory it cannot read the
\* DirEntry first and then Err; else the DirEntry (file_type "Stdin" stands
\* for file_type() == None).
WalkItem(work) ==
    LET p == work.path IN
    IF file_type(p, work.depth) = "Missing"
    THEN [ok |-> FALSE,
          error |-> IgnoreError("WithPath", "Io", "NotFound", p)]
    ELSE IF work.err
    THEN [ok |-> FALSE,
          error |-> IgnoreError("WithDepth", "Io", "PermissionDenied", p)]
    ELSE [ok |-> TRUE,
          dent |-> [path |-> p, file_type |-> file_type(p, work.depth),
                    depth |-> work.depth]]

\* the work a directory's visit leaves behind when it returns Continue
ChildWork(work) ==
    LET it == WalkItem(work) IN
    IF /\ it.ok
       /\ it.dent.file_type = "Dir"
       /\ \A m \in builder.max_depth : work.depth < m
    THEN {[path |-> c, depth |-> work.depth + 1, err |-> FALSE] :
             c \in FsChildren(work.path)}
    ELSE {}

\* the directory an entry was listed in
FsParent(p) == CHOOSE d \in FsListed : p \in FsChildren(d)

\* the place of an element in a sequence without repetitions
IndexIn(seq, x) == CHOOSE i \in DOMAIN seq : seq[i] = x

\* read_dir on a directory, as the walker calls it: an order of its
\* entries, not specified, but the one it was listed in before if it was
\* (the file system does not change between the runs)
Listed(p) ==
    IF p \in DOMAIN listing THEN {listing[p]} ELSE Orders(FsChildren(p))

\* The work a worker may take next.  A worker pops its own stack: the work
\* pushed last, which is the deepest and, of that, the entry its directory
\* listed last.  With several workers work is also stolen, in no fixed
\* order.
StackTop ==
    {work \in pending :
        \A o \in pending :
            /\ o.depth <= work.depth
            /\ (o.depth = work.depth /\ o # work)
                 => IndexIn(listing[FsParent(o.path)], o.path)
                      < IndexIn(listing[FsParent(work.path)], work.path)}

Takeable == IF Cardinality(Workers) = 1 THEN StackTop ELSE pending

\* (mutant: the workers never look at the stop flag)
is_quit_now_unobserved == FALSE

\* the stop flag, as a worker reads it before it takes work
is_quit_now == quit_now

\* a worker takes a piece of work unless the pool has been told to quit
Dispatch(w) ==
    /\ phase = "walking"
    /\ wpc[w] = "idle"
    /\ ~is_quit_now
    /\ \E work \in Takeable :
         /\ pending' = pending \ {work}
         /\ witem' = [witem EXCEPT ![w] = work]
    /\ wpc' = [wpc EXCEPT ![w] = "visit"]
    /\ UNCHANGED <<builder, phase, root, quit_now, wmc, shared, result,
                   calls, run_no, prev, probe, listing>>

\* the walker could not list the directory whose entry it has just passed
ReadDirFails(work) ==
    /\ ~work.err
    /\ file_type(work.path, work.depth) = "Dir"
    /\ FsUnreadable(FsTarget(work.path))

\* the callback returns: Quit makes the worker leave the pool; Continue on
\* the entry of an unreadable directory brings the call with its error;
\* otherwise Continue frees the worker (a directory's children become work,
\* pushed in the order read_dir lists them; the order is kept where a stack
\* is popped in order, which is with one worker)
Return(w, verdict) ==
    IF verdict = "Quit"
    THEN /\ wpc' = [wpc EXCEPT ![w] = "quit"]
         /\ UNCHANGED <<pending, witem, listing>>
    ELSE IF ReadDirFails(witem[w])
    THEN /\ wpc' = [wpc EXCEPT ![w] = "visit"]
         /\ witem' = [witem EXCEPT ![w].err = TRUE]
         /\ UNCHANGED <<pending, listing>>
    ELSE /\ wpc' = [wpc EXCEPT ![w] = "idle"]
         /\ pending' = pending \cup ChildWork(witem[w])
         /\ witem' = [witem EXCEPT ![w] = NoWork]
         /\ IF Cardinality(Workers) = 1 /\ ChildWork(witem[w]) # {}
            THEN \E order \in Listed(witem[w].path) :
                    listing' = (witem[w].path :> order) @@ listing
            ELSE UNCHANGED listing

\* the worker whose callback returned Quit raises the stop flag
SetQuit(w) ==
    /\ phase = "walking"
    /\ wpc[w] = "quit"
    /\ quit_now' = TRUE
    /\ wpc' = [wpc EXCEPT ![w] = "done"]
    /\ witem' = [witem EXCEPT ![w] = NoWork]
    /\ UNCHANGED <<builder, phase, root, pending, wmc, shared, result,
                   calls, run_no, prev, probe, listing>>

\* -------------------------------------------------------------- callback
\* the options the callback captured
\* (mutant: errors are collected whatever the option says)
collect_errors_ignored == TRUE

collect_errors == builder.collect_errors

\* (mutant: paths are collected whatever the option says)
collect_paths_ignored == TRUE

collect_paths == builder.collect_paths

\* (mutant: the at-limit guard is missing)
LateGuard_missing(mc) == "Continue"

\* (mutant: the callback quits on any match, limit or not)
LateGuard_any_match(mc) == "Quit"

\* at-limit guard: Quit when mc has reached the limit
LateGuard(mc) ==
    IF \E lim \in builder.limit : mc >= lim THEN "Quit" ELSE "Continue"

\* (mutant: the early guard is missing)
EarlyGuard_missing(mc) == FALSE

\* early guard: over the limit before collecting
EarlyGuard(mc) == \E lim \in builder.limit : mc > lim

\* the classification tallies
\* (mutant: everything that is not a directory is counted as a file)
TallyFiles_not_dir(ft, n) == IF ft # "Dir" THEN n + 1 ELSE n

TallyFiles(ft, n) == IF ft # "Dir" /\ ft = "File" THEN n + 1 ELSE n

\* (mutant: a directory is counted twice)
TallyDirs_twice(ft, n) == IF ft = "Dir" THEN n + 2 ELSE n

TallyDirs(ft, n) == IF ft = "Dir" THEN n + 1 ELSE n

\* (mutant: the root is not skipped)
IsRoot_missing(dent) == FALSE

\* "skip the root itself"
IsRoot(dent) == dent.depth = 0

\* the parex Entry built from the DirEntry
EntryOf(dent) ==
    Entry(dent.path, FileName(dent.path),
          CASE dent.file_type = "Dir"     -> "Dir"
            [] dent.file_type = "File"    -> "File"
            [] dent.file_type = "Symlink" -> "Symlink"
            [] OTHER                      -> "Other",
          dent.depth)

\* (mutant: the matcher's answer is not looked at)
matcher_is_match_ignored(e) == TRUE

\* matcher.is_match(&parex_entry)
matcher_is_match(e) == is_match(EffectiveMatcher, e)

\* callback, from its entry to the root check: errors, file type, tallies
Visit(w) ==
    /\ phase = "walking"
    /\ wpc[w] = "visit"
    /\ calls' = calls \cup {witem[w]}
    /\ LET it == WalkItem(witem[w]) IN
       IF ~it.ok
       THEN /\ IF collect_errors
               THEN /\ wpc' = [wpc EXCEPT ![w] = "errlock"]
                    /\ UNCHANGED <<pending, witem, listing>>
               ELSE Return(w, "Continue")
            /\ UNCHANGED <<files, dirs>>
       ELSE IF it.dent.file_type = "Stdin"
       THEN /\ Return(w, "Continue")
            /\ UNCHANGED <<files, dirs>>
       ELSE /\ dirs' = TallyDirs(it.dent.file_type, dirs)
            /\ files' = TallyFiles(it.dent.file_type, files)
            /\ IF IsRoot(it.dent)
               THEN Return(w, "Continue")
               ELSE /\ wpc' = [wpc EXCEPT ![w] = "match"]
                    /\ UNCHANGED <<pending, witem, listing>>
    /\ UNCHANGED <<builder, phase, root, quit_now, wmc, matches, paths, found, errors,
                   pathsLock, errorsLock, result, run_no, prev, probe>>

\* (mutant: the element is put at the front)
push_front(vec, x) == <<x>> \o vec

\* Vec::push
push(vec, x) == Append(vec, x)

\* errors.lock()
LockErrors(w) ==
    /\ phase = "walking"
    /\ wpc[w] = "errlock"
    /\ errorsLock = 0
    /\ errorsLock' = w
    /\ wpc' = [wpc EXCEPT ![w] = "errpush"]
    /\ UNCHANGED <<builder, phase, root, pending, quit_now, witem, wmc,
                   matches, files, dirs, paths, found, errors, pathsLock, result,
                   calls, run_no, prev, probe, listing>>

\* errs.push(err), the guard is dropped, return Continue
PushError(w) ==
    /\ phase = "walking"
    /\ wpc[w] = "errpush"
    /\ errors' = push(errors, map_ignore_error(WalkItem(witem[w]).error))
    /\ errorsLock' = 0
    /\ Return(w, "Continue")
    /\ UNCHANGED <<builder, phase, root, quit_now, wmc,
                   matches, files, dirs, paths, found, pathsLock, result,
                   calls, run_no, prev, probe>>

\* the matcher, the fetch_add on matches and the early guard
Match(w) ==
    /\ phase = "walking"
    /\ wpc[w] = "match"
    /\ LET e == EntryOf(WalkItem(witem[w]).dent)
           mc == matches + 1
       IN  IF ~matcher_is_match(e)
           THEN /\ Return(w, "Continue")
                /\ UNCHANGED <<matches, wmc>>
           ELSE /\ matches' = mc
                /\ IF EarlyGuard(mc)
                   THEN /\ Return(w, "Quit")
                        /\ UNCHANGED wmc
                   ELSE IF collect_paths
                   THEN /\ wpc' = [wpc EXCEPT ![w] = "pathlock"]
                        /\ wmc' = [wmc EXCEPT ![w] = mc]
                        /\ UNCHANGED <<pending, witem, listing>>
                   ELSE /\ Return(w, LateGuard(mc))
                        /\ UNCHANGED wmc
    /\ UNCHANGED <<builder, phase, root, quit_now, files, dirs, paths, found, errors,
                   pathsLock, errorsLock, result, calls, run_no, prev, probe>>

\* (mutant: the path list is entered without taking its mutex)
LockPaths_unguarded(w) ==
    /\ phase = "walking"
    /\ wpc[w] = "pathlock"
    /\ pathsLock' = w
    /\ wpc' = [wpc EXCEPT ![w] = "pathpush"]
    /\ UNCHANGED <<builder, phase, root, pending, quit_now, witem, wmc,
                   matches, files, dirs, paths, found, errors, errorsLock, result,
                   calls, run_no, prev, probe, listing>>

\* paths.lock()
LockPaths(w) ==
    /\ phase = "walking"
    /\ wpc[w] = "pathlock"
    /\ pathsLock = 0
    /\ pathsLock' = w
    /\ wpc' = [wpc EXCEPT ![w] = "pathpush"]
    /\ UNCHANGED <<builder, phase, root, pending, quit_now, witem, wmc,
                   matches, files, dirs, paths, found, errors, errorsLock, result,
                   calls, run_no, prev, probe, listing>>

\* p.push(path), the guard is dropped, then the at-limit guard
PushPath(w) ==
    /\ phase = "walking"
    /\ wpc[w] = "pathpush"
    /\ paths' = push(paths, witem[w].path)
    /\ found' = push(found, wmc[w])
    /\ pathsLock' = 0
    /\ wmc' = [wmc EXCEPT ![w] = 0]
    /\ Return(w, LateGuard(wmc[w]))
    /\ UNCHANGED <<builder, phase, root, quit_now,
                   matches, files, dirs, errors, errorsLock, result,
                   calls, run_no, prev, probe>>

\* -------------------------------------------------------------- finalizer
\* A Duration is a number of nanoseconds.
NanosPerSec == 1000000000

\* start.elapsed() is whatever the run took, which depends on the machine
\* and its load: an input from outside the program, never zero, of which
\* MaxDuration samples are drawn.  Samples, in nanoseconds, of runs of some
\* tens of microseconds to some milliseconds.  Only stats.duration and
\* stats.entries_per_sec depend on it.
DurationSamples == <<276982, 20000, 5353066, 385500>>

Durations == {DurationSamples[k] : k \in 1..MaxDuration}

\* quotient and remainder of total * NanosPerSec by nanos, a second at a
\* time so that no intermediate value is larger than the result or the
\* operands
RECURSIVE per_sec(_, _)
per_sec(total, nanos) ==
    IF total = 0 THEN [q |-> 0, r |-> 0]
    ELSE LET p == per_sec(total - 1, nanos)
             q1 == NanosPerSec \div nanos
             r1 == NanosPerSec % nanos
         IN  IF p.r >= nanos - r1
             THEN [q |-> p.q + q1 + 1, r |-> p.r - (nanos - r1)]
             ELSE [q |-> p.q + q1, r |-> p.r + r1]

\* as_secs_f64() is exact when the nanoseconds are a binary fraction of a
\* second (a multiple of 5^9 ns), else it is rounded
ExactSeconds(nanos) == nanos % 1953125 = 0

\* (total as f64 / duration.as_secs_f64()) as usize: the f64 quotient,
\* truncated.  Where the seconds are rounded and the exact quotient is a
\* whole number, the f64 quotient can fall just below it and truncate to
\* one less; a quotient that is not whole is further from a whole number
\* than the rounding reaches.
entries_per_sec(total, nanos) ==
    LET e == per_sec(total, nanos)
    IN  IF e.r = 0 /\ e.q > 0 /\ ~ExactSeconds(nanos)
        THEN {e.q, e.q - 1} ELSE {e.q}

\* ScanStats::compute: the values it can return
compute(f, d, duration) ==
    {[files |-> f, dirs |-> d, duration |-> duration, entries_per_sec |-> eps] :
        eps \in IF duration > 0 THEN entries_per_sec(f + d, duration) ELSE {0}}

\* (mutant: the raw counter is reported)
Clamp_missing(m) == m

\* the clamp of matches to the limit
Clamp(m) ==
    IF builder.limit = {} THEN m
    ELSE LET lim == CHOOSE l \in builder.limit : TRUE
         IN  IF m < lim THEN m ELSE lim

\* (mutant: walker.run() returns without joining the workers)
Quiesced_unjoined == TRUE

\* every worker has left the pool
Quiesced ==
    /\ \A w \in Workers : wpc[w] \in {"idle", "done"}
    /\ quit_now \/ pending = {}

\* walker.run() returns; run() reads the counters, takes the collections,
\* clamps and builds Results; SearchBuilder::run() returns Ok of it
Finalize ==
    /\ phase = "walking"
    /\ Quiesced
    /\ \E duration \in Durations :
         \E stats \in compute(files, dirs, duration) :
            result' = [tag |-> "Ok",
                       matches |-> Clamp(matches),
                       paths |-> paths,
                       stats |-> stats,
                       errors |-> errors]
    /\ phase' = "returned"
    /\ UNCHANGED <<builder, root, pending, quit_now, wpc, witem, wmc, shared,
                   calls, run_no, prev, probe, listing>>

Next ==
    \/ RunNoSource
    \/ RunStart
    \/ \E w \in Workers : Dispatch(w)
    \/ \E w \in Workers : Visit(w)
    \/ \E w \in Workers : LockErrors(w)
    \/ \E w \in Workers : PushError(w)
    \/ \E w \in Workers : Match(w)
    \/ \E w \in Workers : LockPaths(w)
    \/ \E w \in Workers : PushPath(w)
    \/ \E w \in Workers : SetQuit(w)
    \/ Finalize

Spec == Init /\ [][Next]_vars

\* ------------------------------------------------------- fair scheduling
\* run() blocks in walker.run(): the threads of the pool are scheduled, so
\* the program does not stop while some step of it can be taken
\* termination is checked on the runs with the most steps: without a depth
\* bound (the longest walks) and with collect_errors on (an error item then
\* takes the steps of the lock and the push before the callback returns;
\* with it off the callback returns at once)
InitFair == Init /\ builder.max_depth = {} /\ builder.collect_errors

SpecFair == InitFair /\ [][Next]_vars /\ WF_vars(Next)

\* --------------------------------------------------------- error taxonomy
\* A caller holds a ParexError and asks for its class and its path.
ErrorPayloads == {"", ".", "-", "tmp", "tmp/locked", "no source provided"}

ErrorValues ==
    {ParexError(v, p) : v \in ErrorVariants, p \in ErrorPayloads}

\* SearchBuilder::default()
DefaultBuilder ==
    [source |-> {}, matcher |-> {}, limit |-> {}, threads |-> Cores,
     max_depth |-> {}, collect_paths |-> FALSE, collect_errors |-> FALSE]

InitError ==
    /\ builder = DefaultBuilder
    /\ phase = "built"
    /\ root = ""
    /\ pending = {}
    /\ quit_now = FALSE
    /\ wpc = <<>>
    /\ witem = <<>>
    /\ wmc = <<>>
    /\ matches = 0 /\ files = 0 /\ dirs = 0
    /\ paths = <<>> /\ errors = <<>>
    /\ found = <<>>
    /\ pathsLock = 0 /\ errorsLock = 0
    /\ result = NoResult
    /\ calls = {}
    /\ run_no = 1
    /\ prev = NoResult
    /\ listing = <<>>
    /\ probe \in {[tag |-> "Error", error |-> e] : e \in ErrorValues}

\* the caller calls is_recoverable(), is_fatal() and path() on the error
Classify ==
    /\ probe.tag = "Error"
    /\ probe' = [tag |-> "Classified",
                 error |-> probe.error,
                 is_recoverable |-> is_recoverable(probe.error),
                 is_fatal |-> is_fatal(probe.error),
                 path |-> ParexError_path(probe.error)]
    /\ UNCHANGED <<builder, phase, root, pending, quit_now, wpc, witem, wmc,
                   shared, result, calls, run_no, prev, listing>>

NextError == Classify

SpecError == InitError /\ [][NextError]_vars

\* ------------------------------------------------------------ second run
\* The caller runs the same search again: the same builder, source, file
\* system and machine, the source yielding the same items, so that the root
\* is the same, and every directory listing its entries in the order it did
\* in the first run.  The first run's counts are kept for comparison.
Rerun ==
    /\ phase = "returned"
    /\ run_no = 1
    /\ result.tag = "Ok"
    /\ prev' = [tag |-> "Ok", matches |-> result.matches,
                files |-> result.stats.files, dirs |-> result.stats.dirs]
    /\ run_no' = 2
    /\ result' = NoResult
    /\ StartWalk(root, Cardinality(Workers))
    /\ UNCHANGED <<builder, probe, listing>>

NextTwice == Next \/ Rerun

\* the two-run comparison is made without a depth bound
InitTwice == Init /\ builder.max_depth = {}

SpecTwice == InitTwice /\ [][NextTwice]_vars

\* -------------------------------------- second run, collect_errors flipped
\* The caller runs the same search again with collect_errors(..) the other
\* way and everything else the same.  The first run's counts are kept for
\* comparison.
RerunOtherErrors ==
    /\ phase = "returned"
    /\ run_no = 1
    /\ result.tag = "Ok"
    /\ prev' = [tag |-> "Ok", matches |-> result.matches,
                files |-> result.stats.files, dirs |-> result.stats.dirs]
    /\ run_no' = 2
    /\ result' = NoResult
    /\ builder' = [builder EXCEPT !.collect_errors = ~builder.collect_errors]
    /\ StartWalk(root, Cardinality(Workers))
    /\ UNCHANGED <<probe, listing>>

NextOtherErrors == Next \/ RerunOtherErrors

SpecOtherErrors == InitTwice /\ [][NextOtherErrors]_vars

\* ================================================================ claims
Min(a, b) == IF a < b THEN a ELSE b
Max(a, b) == IF a < b THEN b ELSE a

Returned == phase = "returned"

\* the items Source::walk() yields for the configured source under a
\* listing, and under one of the listings (the counts below are the same
\* under every listing)
SourceItemsUnder(ls) ==
    IF builder.source = {} THEN <<>>
    ELSE walk(CHOOSE src \in builder.source : TRUE, ls)

SourceItems == SourceItemsUnder(CHOOSE ls \in Listings : TRUE)

\* the entries of the source for which the predicate is true
SourceTrueMatchCount ==
    Cardinality({i \in DOMAIN SourceItems :
        /\ SourceItems[i].ok
        /\ is_match(EffectiveMatcher, SourceItems[i].entry)})

\* the entries of the source of a kind
SourceKindCount(kind) ==
    Cardinality({i \in DOMAIN SourceItems :
        SourceItems[i].ok /\ SourceItems[i].entry.kind = kind})

\* the recoverable errors the source reports
SourceRecoverableErrors ==
    Cardinality({i \in DOMAIN SourceItems :
        ~SourceItems[i].ok /\ is_recoverable(SourceItems[i].error)})

\* the callback invocations on an entry the matcher accepts
MatchedCalls ==
    {c \in calls :
        /\ c.depth # 0
        /\ LET it == WalkItem(c) IN
           /\ it.ok
           /\ it.dent.file_type # "Stdin"
           /\ is_match(EffectiveMatcher, EntryOf(it.dent))}

\* the callback invocations on an error of the walker
ErrorCalls == {c \in calls : ~WalkItem(c).ok}

NWorkers == Cardinality(Workers)

\* C1: with no limit, the reported matches equals the number of entries of
\* the source for which the predicate is true, for any number of workers.
C1_MatchesEqualSourceTrueCount ==
    (Returned /\ builder.source # {} /\ builder.limit = {})
        => (result.tag = "Ok" /\ result.matches = SourceTrueMatchCount)

\* C2: with limit L, once the run has finished the reported matches equals
\* min(true match count of the source, L).
C2_MatchesEqualMinOfCountAndLimit ==
    \A L \in builder.limit :
        (Returned /\ builder.source # {})
            => (result.tag = "Ok"
                /\ result.matches = Min(SourceTrueMatchCount, L))

\* C3: with collect_paths and a limit L, the shared path list and the
\* returned Results.paths never hold more than L paths.
C3_PathsWithinLimit ==
    \A L \in builder.limit :
        builder.collect_paths
            => /\ Len(paths) <= L
               /\ result.tag = "Ok" => Len(result.paths) <= L

\* C3 witness: two or more workers, the raw counter overshot the limit, and
\* the returned path list holds exactly the limit.
C3_Witness ==
    /\ Returned /\ result.tag = "Ok" /\ builder.collect_paths
    /\ NWorkers >= 2
    /\ \E L \in builder.limit : L >= 1 /\ matches > L /\ Len(result.paths) = L

\* C4 (as stated): with limit L and T workers the raw match counter is at
\* most L + (T - 1), for every L >= 0 and T >= 1.
C4_OvershootBound ==
    \A L \in builder.limit :
        NWorkers >= 1 => matches <= L + (NWorkers - 1)

\* C4 (amended): the raw match counter is at most max(L, 1) + (T - 1); with
\* L = 0 every worker counts its first match before it returns Quit.
C4_OvershootBoundAmended ==
    \A L \in builder.limit :
        NWorkers >= 1 => matches <= Max(L, 1) + (NWorkers - 1)

\* C4 witness: the bound is met with a limit of at least 1 and two workers.
C4_Witness ==
    \E L \in builder.limit :
        L >= 1 /\ NWorkers >= 2 /\ matches = L + (NWorkers - 1)

\* C5: when the producer has reported a fatal error, the run returns that
\* error and no Results.
C5_FatalErrorAborts ==
    (Returned /\ \E c \in ErrorCalls :
                     is_fatal(map_ignore_error(WalkItem(c).error)))
        => (result.tag = "Err" /\ is_fatal(result.error))

\* C6: with collect_errors and no limit, a run over a source that reports k
\* recoverable errors returns Results with exactly k errors.
C6_SourceErrorsCollected ==
    (Returned /\ builder.source # {} /\ builder.limit = {}
              /\ builder.collect_errors)
        => (result.tag = "Ok"
            /\ Len(result.errors) = SourceRecoverableErrors)

\* C7: with collect_errors off, the shared errors collection is empty in
\* every state and Results.errors is empty.
C7_NoErrorsWhenNotCollecting ==
    ~builder.collect_errors
        => /\ errors = <<>>
           /\ result.tag = "Ok" => result.errors = <<>>

\* C7 witness: the walker reported an error, collect_errors is off, and the
\* returned errors list is empty.
C7_Witness ==
    /\ Returned /\ result.tag = "Ok" /\ ~builder.collect_errors
    /\ ErrorCalls # {}
    /\ result.errors = <<>>

\* C8: with collect_paths off, the shared path list is empty in every state
\* and Results.paths is empty, while Results.matches still counts (clamped
\* to the limit) the invocations whose entry the matcher accepted.
C8_NoPathsWhenNotCollecting ==
    ~builder.collect_paths
        => /\ paths = <<>>
           /\ result.tag = "Ok"
                => /\ result.paths = <<>>
                   /\ builder.limit = {}
                        => result.matches = Cardinality(MatchedCalls)
                   /\ \A L \in builder.limit :
                        result.matches = Min(Cardinality(MatchedCalls), L)

\* C8 witness: several matches were counted and no path was returned.
C8_Witness ==
    /\ Returned /\ result.tag = "Ok" /\ ~builder.collect_paths
    /\ result.matches >= 2
    /\ result.paths = <<>>

\* C9: with no limit, stats.files and stats.dirs equal the numbers of entries
\* of the source classified File and Directory.
C9_StatsEqualSourceKinds ==
    (Returned /\ builder.source # {} /\ builder.limit = {})
        => (result.tag = "Ok"
            /\ result.stats.files = SourceKindCount("File")
            /\ result.stats.dirs = SourceKindCount("Dir"))

\* C10 (as stated): a second run with the same configuration ends with the
\* same matches, files and dirs as the first.
C10_SameCountsOnRerun ==
    (run_no = 2 /\ Returned)
        => /\ result.tag = "Ok"
           /\ result.matches = prev.matches
           /\ result.stats.files = prev.files
           /\ result.stats.dirs = prev.dirs

\* the first run was not stopped by a limit
NotStoppedByLimit ==
    builder.limit = {} \/ \E L \in builder.limit : prev.matches < L

\* C10 (amended): a second run ends with the same matches; files and dirs
\* are the same too when the run has one worker, when no limit is
\* configured and when the limit was not reached.
C10_SameCountsOnRerunAmended ==
    (run_no = 2 /\ Returned)
        => /\ result.tag = "Ok"
           /\ result.matches = prev.matches
           /\ (NWorkers = 1 \/ NotStoppedByLimit)
                => /\ result.stats.files = prev.files
                   /\ result.stats.dirs = prev.dirs

\* C10 witness: a second run with two workers and a limit that was reached
\* after an overshoot of the raw counter has returned.
C10_Witness ==
    /\ run_no = 2 /\ Returned /\ NWorkers >= 2
    /\ \E L \in builder.limit : L >= 1 /\ matches > L /\ result.matches = L
    /\ result.matches = prev.matches

\* C11: run() on a builder with no source returns Err(InvalidSource) and
\* nothing else happens: no root is resolved, no work is created, no worker
\* is started, the callback (and so the predicate) is never called and the
\* shared state is never touched.
C11_NoSourceFailsBeforeTraversal ==
    builder.source = {}
        => /\ phase \in {"built", "returned"}
           /\ root = "" /\ pending = {} /\ Workers = {} /\ calls = {}
           /\ matches = 0 /\ files = 0 /\ dirs = 0
           /\ paths = <<>> /\ errors = <<>>
           /\ Returned => /\ result.tag = "Err"
                          /\ result.error.variant = "InvalidSource"

\* C11 witness: run() has returned on a builder without a source.
C11_Witness ==
    /\ Returned /\ builder.source = {}
    /\ result.tag = "Err"

\* C12: run() with threads = 0 fails with InvalidThreadCount before any
\* traversal begins: no walk is started and no Results is returned.
C12_ZeroThreadsRejected ==
    (builder.source # {} /\ builder.threads = 0)
        => /\ phase \in {"built", "returned"}
           /\ Workers = {} /\ calls = {}
           /\ Returned => /\ result.tag = "Err"
                          /\ result.error.variant = "InvalidThreadCount"

\* C13: the Results value is built once, in a step taken when no worker is
\* inside the callback (every worker is idle or has left the pool), from
\* the counters and collections as they are; once run() has returned, no
\* step changes match_count, file_count, dir_count, matched_paths, errors,
\* the workers or the Results.
C13_FinalizeAfterQuiescence ==
    [][ /\ (phase = "walking" /\ phase' = "returned")
            => /\ \A w \in Workers : wpc[w] \in {"idle", "done"}
               /\ UNCHANGED <<matches, files, dirs, paths, errors, wpc>>
               /\ result = NoResult
               /\ result'.tag = "Ok"
               /\ result'.matches = Clamp(matches)
               /\ result'.paths = paths
               /\ result'.errors = errors
               /\ result'.stats.files = files
               /\ result'.stats.dirs = dirs
        /\ (phase = "returned")
            => UNCHANGED <<matches, files, dirs, paths, errors, wpc, result>>
      ]_vars

\* C13 witness: a run of two workers has returned Results holding a match,
\* a path and an error, one worker having left the pool on Quit.
C13_Witness ==
    /\ Returned /\ result.tag = "Ok" /\ NWorkers >= 2
    /\ result.matches >= 1 /\ Len(result.paths) >= 1 /\ Len(result.errors) >= 1
    /\ \E w \in Workers : wpc[w] = "done"
    /\ \A w \in Workers : wpc[w] \in {"idle", "done"}

C15_ErrorsAreRecoverable ==
    /\ \A i \in DOMAIN errors : is_recoverable(errors[i])
    /\ result.tag = "Ok"
         => \A i \in DOMAIN result.errors : is_recoverable(result.errors[i])

\* C16: for every error variant, is_recoverable() is true exactly for
\* PermissionDenied, NotFound, SymlinkLoop and Io, is_fatal() is its
\* negation, and path() is Some(the path) exactly for PermissionDenied,
\* NotFound, InvalidSource, SymlinkLoop and Io, and None otherwise.
C16_ErrorTaxonomy ==
    probe.tag = "Classified"
        => LET v == probe.error.variant IN
           /\ probe.is_recoverable
                 <=> v \in {"PermissionDenied", "NotFound", "SymlinkLoop", "Io"}
           /\ probe.is_fatal <=> ~probe.is_recoverable
           /\ probe.path =
                 (IF v \in {"PermissionDenied", "NotFound", "InvalidSource",
                            "SymlinkLoop", "Io"}
                  THEN {probe.error.path} ELSE {})

\* C16 witness: InvalidSource has been classified: fatal, and with a path.
C16_Witness ==
    /\ probe.tag = "Classified"
    /\ probe.error.variant = "InvalidSource"
    /\ probe.is_fatal /\ probe.path = {"no source provided"}

\* C17: every path in the shared path list, and so in Results.paths, is the
\* path of an entry the callback was called with and the predicate accepts,
\* and no path is recorded twice.
C17_PathsAreOfMatches ==
    LET matched == MatchedCalls IN
    /\ \A i \in DOMAIN paths : \E c \in matched : c.path = paths[i]
    /\ \A i, j \in DOMAIN paths : paths[i] = paths[j] => i = j
    /\ Len(paths) <= Cardinality(matched)
    /\ result.tag = "Ok" => result.paths = paths

\* C17 witness: a search by substring has returned two paths, and the
\* callback was also called with an entry the predicate rejects.
C17_Witness ==
    /\ Returned /\ result.tag = "Ok"
    /\ EffectiveMatcher.type = "Substring"
    /\ Len(result.paths) >= 2
    /\ \E c \in calls \ MatchedCalls : c.path = "tmp/subdir"

\* C18: a callback whose post-increment match count is greater than the
\* limit returns Quit in that step and appends no path; and a path is
\* appended only by a callback whose post-increment count m satisfies
\* 1 <= m <= limit.
C18_EarlyGuardStopsBeforePush ==
    [][ /\ \A w \in Workers :
              ( /\ wpc[w] = "match" /\ wpc'[w] # "match"
                /\ matches' = matches + 1
                /\ \E L \in builder.limit : matches' > L )
                  => (wpc'[w] = "quit" /\ paths' = paths)
        /\ paths' # paths
              => \E w \in Workers :
                    /\ wpc[w] = "pathpush" /\ wpc'[w] # "pathpush"
                    /\ wmc[w] >= 1
                    /\ \A L \in builder.limit : wmc[w] <= L
      ]_vars

\* C18 witness: of two workers collecting paths both have returned Quit, one
\* at the limit after its push and one over the limit without a push.
C18_Witness ==
    /\ phase = "walking" /\ builder.collect_paths /\ NWorkers = 2
    /\ \A w \in Workers : wpc[w] \in {"quit", "done"}
    /\ \E L \in builder.limit : L >= 1 /\ matches = L + 1 /\ Len(paths) = L

\* a step in which worker w's callback returns Quit, or returns Continue
InCallback(w) == wpc[w] \in {"visit", "errpush", "match", "pathpush"}

ReturnsQuit(w) == InCallback(w) /\ wpc'[w] = "quit"

ReturnsContinue(w) ==
    /\ InCallback(w)
    /\ \/ wpc'[w] = "idle"
       \/ wpc'[w] = "visit" /\ witem'[w] # witem[w]

\* the callback of worker w is past the matcher with an accepted entry, and
\* its post-increment count (taken in this step, or kept since) has reached
\* the limit
MatchedAtLimit(w) ==
    /\ wpc[w] \in {"match", "pathpush"}
    /\ is_match(EffectiveMatcher, EntryOf(WalkItem(witem[w]).dent))
    /\ \E L \in builder.limit :
          (IF wpc[w] = "match" THEN matches + 1 ELSE wmc[w]) >= L

\* C19: a callback invocation returns Quit exactly when its entry matched,
\* a limit is configured and its post-increment count m is >= limit; in
\* every other case (an error, the root, a rejected entry, m < limit, no
\* limit) it returns Continue.
C19_VerdictRule ==
    [][ \A w \in Workers :
            /\ ReturnsQuit(w) => MatchedAtLimit(w)
            /\ ReturnsContinue(w) => ~MatchedAtLimit(w)
      ]_vars

\* C19 witness: a single worker, not collecting paths, has returned Quit on
\* its second match with limit 2, after Continue on the first.
C19_Witness ==
    /\ phase = "walking" /\ ~builder.collect_paths /\ NWorkers = 1
    /\ builder.limit = {2} /\ matches = 2
    /\ wpc[1] = "quit"
    /\ Cardinality(calls) >= 3

\* C20: in every step match_count, file_count and dir_count each stay or
\* grow by exactly 1, and matched_paths and errors each stay or grow by one
\* element appended at the end.
C20_MonotoneCountersAppendOnly ==
    [][ /\ matches' \in {matches, matches + 1}
        /\ files' \in {files, files + 1}
        /\ dirs' \in {dirs, dirs + 1}
        /\ \/ paths' = paths
           \/ /\ Len(paths') = Len(paths) + 1
              /\ SubSeq(paths', 1, Len(paths)) = paths
        /\ \/ errors' = errors
           \/ /\ Len(errors') = Len(errors) + 1
              /\ SubSeq(errors', 1, Len(errors)) = errors
      ]_vars

\* C20 witness: every counter has grown more than once, two paths and an
\* error have been appended.
C20_Witness ==
    /\ matches >= 2 /\ files >= 2 /\ dirs >= 2
    /\ Len(paths) >= 2 /\ Len(errors) >= 1

\* worker w's callback is on an entry (not the root) that is a symlink or
\* of another type that is neither a file nor a directory
OnSymlinkOrOther(w) ==
    /\ WalkItem(witem[w]).ok
    /\ WalkItem(witem[w]).dent.file_type \in {"Symlink", "Fifo"}
    /\ witem[w].depth > 0

\* C21: the callback on an entry of kind Symlink or Other leaves file_count
\* and dir_count as they are and goes on to the predicate; when the
\* predicate accepts the entry, match_count grows by 1 and, with
\* collect_paths on and the count not over a limit, the entry's path is the
\* one appended to matched_paths.
C21_SymlinkOtherMatchedNotTallied ==
    [][ \A w \in Workers :
          OnSymlinkOrOther(w)
            => /\ (wpc[w] = "visit" /\ wpc'[w] # "visit")
                    => /\ files' = files /\ dirs' = dirs
                       /\ wpc'[w] = "match"
                       /\ EntryOf(WalkItem(witem[w]).dent).kind
                             \in {"Symlink", "Other"}
               /\ (wpc[w] = "match" /\ wpc'[w] # "match"
                      /\ is_match(EffectiveMatcher,
                                  EntryOf(WalkItem(witem[w]).dent)))
                    => /\ matches' = matches + 1
                       /\ (builder.collect_paths
                             /\ \A L \in builder.limit : matches' <= L)
                            => wpc'[w] = "pathlock"
               /\ (wpc[w] = "pathpush" /\ wpc'[w] # "pathpush")
                    => paths' = Append(paths, witem[w].path)
      ]_vars

\* C21 witness: a run with no limit has returned the path of a symlink among
\* its matches, having tallied the two files and three directories only.
C21_Witness ==
    /\ Returned /\ result.tag = "Ok" /\ builder.limit = {}
    /\ \E i \in DOMAIN result.paths : result.paths[i] = "tmp/inv_link"
    /\ result.matches = Cardinality(MatchedCalls)
    /\ result.stats.files = 2 /\ result.stats.dirs = 3

\* C22: at most one worker is inside the push to matched_paths, and at most
\* one inside the push to errors; a mutex is held exactly by the worker that
\* is at its push, so never by a worker evaluating the predicate; no worker
\* holds both mutexes; and while the walk is on some step can be taken, a
\* worker waiting for a mutex waiting only for a worker that is at its push.
C22_MutexScope ==
    /\ \A v, w \in Workers :
          /\ (wpc[v] = "pathpush" /\ wpc[w] = "pathpush") => v = w
          /\ (wpc[v] = "errpush" /\ wpc[w] = "errpush") => v = w
    /\ \A w \in Workers :
          /\ pathsLock = w <=> wpc[w] = "pathpush"
          /\ errorsLock = w <=> wpc[w] = "errpush"
          /\ ~(pathsLock = w /\ errorsLock = w)
          /\ wpc[w] \in {"visit", "match"} => pathsLock # w /\ errorsLock # w
    /\ pathsLock \in Workers \cup {0} /\ errorsLock \in Workers \cup {0}
    /\ phase = "walking" => ENABLED Next

\* C22 witness: one worker is inside the push to matched_paths while another
\* waits for the mutex.
C22_Witness ==
    /\ phase = "walking"
    /\ \E v, w \in Workers :
          /\ wpc[v] = "pathpush" /\ pathsLock = v
          /\ wpc[w] = "pathlock"

\* worker w takes a step of its callback on an error item
ErrorItemStep(w) ==
    /\ wpc[w] \in {"visit", "errlock", "errpush"}
    /\ ~WalkItem(witem[w]).ok
    /\ wpc'[w] # wpc[w]

\* the frame of an error item: the counters and matched_paths stay, the
\* callback does not return Quit, and errors changes only by the push of
\* this error with collect_errors on
ErrorItemFrame ==
    \A w \in Workers :
        ErrorItemStep(w)
          => /\ UNCHANGED <<matches, files, dirs, paths>>
             /\ wpc'[w] # "quit"
             /\ errors' # errors
                  => /\ builder.collect_errors
                     /\ errors' = Append(errors,
                           map_ignore_error(WalkItem(witem[w]).error))

\* the entries of a file type among the work the callback was called with
CallsOfType(ft) ==
    Cardinality({c \in calls :
        LET it == WalkItem(c) IN it.ok /\ it.dent.file_type = ft})

\* C23: handling an error item leaves match_count, file_count, dir_count
\* and matched_paths unchanged and changes errors only with collect_errors
\* on; consequently, with collect_errors on or off, the files and dirs a
\* run returns are the numbers of files and directories its callback was
\* called with, and the same search run with collect_errors the other way
\* returns the same matches, and the same files and dirs whenever the run
\* has one worker or no limit stops it.
C23_ErrorFrame ==
    /\ [][ErrorItemFrame]_vars
    /\ []( (Returned /\ result.tag = "Ok")
            => /\ result.stats.files = CallsOfType("File")
               /\ result.stats.dirs = CallsOfType("Dir") )
    /\ []( (run_no = 2 /\ Returned)
            => /\ result.tag = "Ok"
               /\ result.matches = prev.matches
               /\ (NWorkers = 1 \/ NotStoppedByLimit)
                    => /\ result.stats.files = prev.files
                       /\ result.stats.dirs = prev.dirs )

\* C23 witness: a run of two workers that a limit stopped, and that dropped
\* an error, was run again with collect_errors on and returned the error
\* and the same counts.
C23_Witness ==
    /\ run_no = 2 /\ Returned /\ result.tag = "Ok" /\ NWorkers >= 2
    /\ builder.collect_errors /\ Len(result.errors) >= 1
    /\ ~NotStoppedByLimit
    /\ result.matches >= 1 /\ result.matches = prev.matches
    /\ result.stats.files = prev.files /\ result.stats.dirs = prev.dirs

\* C24 (as stated): matched_paths, and so Results.paths, is in the order of
\* the post-increment match counts of the invocations that recorded the
\* paths, for every interleaving of workers.
C24_PathsInMatchOrder ==
    /\ Len(found) = Len(paths)
    /\ \A i, j \in DOMAIN found : i < j => found[i] < found[j]
    /\ result.tag = "Ok" => result.paths = paths

\* C24 (amended): with a single worker the paths are in the order of the
\* match counts; with several workers each recorded path comes from an
\* invocation with a count of its own, in the order of the pushes.
C24_PathsInMatchOrderAmended ==
    /\ Len(found) = Len(paths)
    /\ NWorkers = 1
         => \A i, j \in DOMAIN found : i < j => found[i] < found[j]
    /\ \A i, j \in DOMAIN found : found[i] = found[j] => i = j
    /\ result.tag = "Ok" => result.paths = paths

\* C24 witness: a single worker has returned three paths, pushed by the
\* invocations with counts 1, 2 and 3.
C24_Witness ==
    /\ Returned /\ result.tag = "Ok" /\ NWorkers = 1
    /\ Len(result.paths) = 3 /\ found = <<1, 2, 3>>

\* C25: with collect_paths on, the returned Results has as many paths as
\* its matches, whatever the limit, the number of workers and the
\* interleaving.
C25_PathsLenEqualsMatches ==
    (Returned /\ result.tag = "Ok" /\ builder.collect_paths)
        => Len(result.paths) = result.matches

\* C25 witness: with limit 2 the raw counter reached 3 and the run returned
\* two matches and two paths.
C25_Witness ==
    /\ Returned /\ result.tag = "Ok" /\ builder.collect_paths
    /\ builder.limit = {2} /\ matches = 3
    /\ result.matches = 2 /\ Len(result.paths) = 2

\* C26: in every state in which some invocation has returned Quit (its
\* worker is leaving or has left the pool), a limit L is configured and the
\* raw match_count is >= max(L, 1); and the run, once returned, reports
\* exactly L matches.
C26_QuitNeverSpurious ==
    (\E w \in Workers : wpc[w] \in {"quit", "done"})
        => /\ builder.limit # {}
           /\ \A L \in builder.limit :
                 /\ matches >= Max(L, 1)
                 /\ (Returned /\ result.tag = "Ok") => result.matches = L

\* C26 witness: a single worker returned Quit at limit 1 and the run
\* returned one match with work left undone.
C26_Witness ==
    /\ Returned /\ result.tag = "Ok" /\ NWorkers = 1
    /\ wpc[1] = "done" /\ pending # {}
    /\ builder.limit = {1} /\ result.matches = 1

\* worker w takes the step of its callback on the root entry
RootEntryStep(w) ==
    /\ wpc[w] = "visit"
    /\ witem[w].depth = 0
    /\ WalkItem(witem[w]).ok
    /\ <<wpc'[w], witem'[w]>> # <<wpc[w], witem[w]>>

\* C27: the callback on the root entry tallies it by its type (a directory
\* into dir_count, a file into file_count) and returns Continue without
\* calling the predicate: match_count and matched_paths stay; no worker is
\* ever at the predicate, at the push or returning Quit with the root, and
\* the root's path is never in matched_paths.
C27_RootTalliedNotMatched ==
    /\ [][ \A w \in Workers :
              RootEntryStep(w)
                => LET ft == WalkItem(witem[w]).dent.file_type IN
                   /\ dirs' = (IF ft = "Dir" THEN dirs + 1 ELSE dirs)
                   /\ files' = (IF ft = "File" THEN files + 1 ELSE files)
                   /\ matches' = matches /\ paths' = paths
                   /\ wpc'[w] \in {"idle", "visit"}
          ]_vars
    /\ [](\A w \in Workers :
              wpc[w] \in {"match", "pathlock", "pathpush", "quit"}
                => witem[w].depth > 0)
    /\ [](\A i \in DOMAIN paths : paths[i] # root)

\* C27 witness: a run with the default match-everything predicate and no
\* limit over the directory tmp has returned: three directories tallied,
\* the root among them, and the five entries below the root matched.
C27_Witness ==
    /\ Returned /\ result.tag = "Ok" /\ root = "tmp"
    /\ builder.matcher = {} /\ builder.limit = {} /\ builder.max_depth = {}
    /\ builder.collect_paths
    /\ result.stats.dirs = 3 /\ result.matches = 5
    /\ \A i \in DOMAIN result.paths : result.paths[i] # "tmp"

\* the paths and depths of the walker's own walk from a root: the root at
\* depth 0 and what the file system holds below it
RECURSIVE TreeBelow(_, _)
TreeBelow(p, d) ==
    {[path |-> p, depth |-> d]}
        \cup IF file_type(p, d) = "Dir"
             THEN UNION {TreeBelow(c, d + 1) : c \in FsChildren(p)}
             ELSE {}

\* C28: once run() has started the walk of a source, the root is the path
\* of the first item the source yields ("." when it yields nothing),
\* whatever the items after the first; every call of the callback, and so
\* every entry the predicate sees or the tallies count, is on a path of the
\* walker's own walk of that root, the entry at the predicate below the
\* root; at most as many entries are tallied as the callback was called
\* with.
C28_OnlyFirstItemsPathIsUsed ==
    /\ [][ /\ (phase = "built" /\ phase' = "walking")
                => /\ (Len(SourceItems) = 0) => (root' = ".")
                   /\ (Len(SourceItems) > 0 /\ SourceItems[1].ok)
                         => \E ls \in Listings :
                               root' = SourceItemsUnder(ls)[1].entry.path
           /\ (phase # "built") => (root' = root)
         ]_vars
    /\ []( (phase # "built" /\ builder.source # {})
            => /\ \A c \in calls :
                     [path |-> c.path, depth |-> c.depth] \in TreeBelow(root, 0)
               /\ \A w \in Workers :
                     wpc[w] \in {"match", "pathlock", "pathpush"}
                       => /\ [path |-> witem[w].path, depth |-> witem[w].depth]
                                \in TreeBelow(root, 0)
                          /\ witem[w].depth >= 1
               /\ files + dirs <= Cardinality(calls) )

\* C28 witness: the source of three in-memory names, all accepted by the
\* default predicate, was run: the walker was given the first name as the
\* root, called the callback once, and nothing was matched or tallied.
C28_Witness ==
    /\ Returned /\ result.tag = "Ok" /\ builder.matcher = {}
    /\ Len(SourceItems) = 3 /\ SourceTrueMatchCount = 3
    /\ root = "inv_jan.txt"
    /\ calls = {[path |-> "inv_jan.txt", depth |-> 0, err |-> FALSE]}
    /\ result.matches = 0
    /\ result.stats.files = 0 /\ result.stats.dirs = 0

====
